------------------------------ MODULE Spec2Model ------------------------------
(* Multinode constraints of bioptim (bioptim/limits/multinode_constraint.py):  *)
(* the slot discipline of the penalty pools (g_internal / J_internal), the     *)
(* preparation of a MultinodeConstraintList, the constructor's validation and  *)
(* the multinode penalty functions.                                            *)
(*                                                                             *)
(* Python lists are 0-based: list_index keeps Python's numbering (-1 = no      *)
(* slot), and entry i of a pool is element i + 1 of the TLA+ sequence.         *)
(* A pool entry is << >> (the empty list [] that marks a free slot) or <<l>>   *)
(* (the MultinodeConstraint l itself, which is truthy).                        *)
EXTENDS Integers, Sequences, FiniteSets, TLC

\* ----------------------------------------------------------------- bounds
NLinks == 2          \* MultinodeConstraint objects in the list
NPhases == 2         \* ocp.n_phases
MaxListIndex == 1    \* largest list_index a caller hands to the constructor
MaxNodes == 2        \* longest nodes / nodes_phase tuple handed to the constructor
MaxParams == 2       \* longest parameter vector of a controller
MaxControllers == 3  \* most controllers handed to a multinode function
MaxCx == 2           \* largest cx_index_to_get left by an earlier call
MaxStates == 2       \* longest state vector of a controller

Links == 1..NLinks

VARIABLES
    weight,        \* weight[l]: self.weight
    nlp,           \* nlp[l]: TRUE when controller[0].get_nlp / the nlp argument is not None
    nodes_phase,   \* nodes_phase[l]: self.nodes_phase
    list_index,    \* list_index[l]: self.list_index
    base,          \* base[l]: self.base
    pools,         \* the four pools: nlp.g_internal, nlp.J_internal, ocp.g_internal, ocp.J_internal
    returned,      \* what the last prepare_multinode_constraints call returned
    last,          \* the last call: its name, its Link, how it ended, and the Link's state before it
    controllers,   \* the PenaltyController objects handed to a multinode function
    call,          \* the other arguments of that call (or of the constructor)
    result         \* what the call returned or raised

poolVars == <<weight, nlp, nodes_phase, list_index, base, pools, returned, last>>
fcnVars == <<controllers, call, result>>
vars == <<weight, nlp, nodes_phase, list_index, base, pools, returned, last,
          controllers, call, result>>

PoolNames == {"nlp.g_internal", "nlp.J_internal", "ocp.g_internal", "ocp.J_internal"}
GPools == {"nlp.g_internal", "ocp.g_internal"}
JPools == {"nlp.J_internal", "ocp.J_internal"}

\* ------------------------------------------------------- pool allocation

\* line 126, `not j`: an entry is free when it is the empty list
IsEmptySlot(j) == j = << >>

\* ensure_penalty_sanity always working on the constraint pool
g_to_add_to_constraints(l) == IF nlp[l] THEN "nlp.g_internal" ELSE "ocp.g_internal"

\* lines 119-122: the pool ensure_penalty_sanity works on
g_to_add_to(l) ==
    IF weight[l] = 0
    THEN (IF nlp[l] THEN "nlp.g_internal" ELSE "ocp.g_internal")
    ELSE (IF nlp[l] THEN "nlp.J_internal" ELSE "ocp.J_internal")

\* _add_penalty_to_pool with the weight test inverted
pool_to_add_to_inverted(l) ==
    IF weight[l] # 0
    THEN (IF nlp[l] THEN "nlp.g_internal" ELSE "ocp.g_internal")
    ELSE (IF nlp[l] THEN "nlp.J_internal" ELSE "ocp.J_internal")

\* lines 112-115: the pool _add_penalty_to_pool writes to
pool_to_add_to(l) ==
    IF weight[l] = 0
    THEN (IF nlp[l] THEN "nlp.g_internal" ELSE "ocp.g_internal")
    ELSE (IF nlp[l] THEN "nlp.J_internal" ELSE "ocp.J_internal")

\* the growth loop stopping one slot early (`>` for `>=`)
RECURSIVE GrowToShort(_, _)
GrowToShort(pool, idx) ==
    IF idx > Len(pool) THEN GrowToShort(Append(pool, << >>), idx) ELSE pool

\* lines 133-134: while self.list_index >= len(pool): pool.append([])
RECURSIVE GrowTo(_, _)
GrowTo(pool, idx) ==
    IF idx >= Len(pool) THEN GrowTo(Append(pool, << >>), idx) ELSE pool

\* lines 125-128: the first free slot, as a Python index
FirstEmpty(pool) ==
    CHOOSE i \in 0..(Len(pool) - 1) :
        /\ IsEmptySlot(pool[i + 1])
        /\ \A k \in 0..(i - 1) : ~IsEmptySlot(pool[k + 1])

HasEmpty(pool) == \E i \in 1..Len(pool) : IsEmptySlot(pool[i])

\* ensure_penalty_sanity without the scan for a free slot: a fresh Link always appends
SanityResultAppendOnly(pool, idx) ==
    IF idx < 0
    THEN [pool |-> Append(pool, << >>), list_index |-> Len(pool)]
    ELSE [pool |-> [GrowTo(pool, idx) EXCEPT ![idx + 1] = << >>], list_index |-> idx]

\* ensure_penalty_sanity without the else branch: a Link that has a slot is
\* allocated again as if it had none
SanityResultForgetful(pool, idx) ==
    IF HasEmpty(pool)
    THEN [pool |-> pool, list_index |-> FirstEmpty(pool)]
    ELSE [pool |-> Append(pool, << >>), list_index |-> Len(pool)]

\* lines 124-135: the pool and the list_index ensure_penalty_sanity leaves
SanityResult(pool, idx) ==
    IF idx < 0
    THEN IF HasEmpty(pool)
         THEN [pool |-> pool, list_index |-> FirstEmpty(pool)]
         ELSE [pool |-> Append(pool, << >>), list_index |-> Len(pool)]
    ELSE [pool |-> [GrowTo(pool, idx) EXCEPT ![idx + 1] = << >>], list_index |-> idx]

\* lines 118-135
ensure_penalty_sanity(l) ==
    LET p == g_to_add_to(l)
        r == SanityResult(pools[p], list_index[l])
    IN /\ pools' = [pools EXCEPT ![p] = r.pool]
       /\ list_index' = [list_index EXCEPT ![l] = r.list_index]
       /\ last' = [op |-> "ensure_penalty_sanity", link |-> l, err |-> "none",
                   old_index |-> list_index[l], old_len |-> Len(pools[p]),
                   had_entry |-> /\ list_index[l] >= 0
                                 /\ list_index[l] < Len(pools[p])
                                 /\ pools[p][list_index[l] + 1] = <<l>>]
       /\ UNCHANGED <<weight, nlp, nodes_phase, base, returned, fcnVars>>

\* line 116, pool[self.list_index] = self: Python's item assignment, where a
\* negative index counts from the end and an index outside the list raises
SetItem(pool, idx, l) ==
    IF idx >= 0 /\ idx < Len(pool)
    THEN [err |-> "none", pool |-> [pool EXCEPT ![idx + 1] = <<l>>]]
    ELSE IF idx < 0 /\ -idx <= Len(pool)
    THEN [err |-> "none", pool |-> [pool EXCEPT ![Len(pool) + idx + 1] = <<l>>]]
    ELSE [err |-> "IndexError", pool |-> pool]

\* lines 104-116; controller is "scalar" (no list or tuple), "empty" (a list
\* with no controller, so that controller[0] raises) or "list"
AddResult(l, controller) ==
    IF controller = "scalar" THEN [err |-> "RuntimeError", pool |-> pools[pool_to_add_to(l)]]
    ELSE IF controller = "empty" THEN [err |-> "IndexError", pool |-> pools[pool_to_add_to(l)]]
    ELSE SetItem(pools[pool_to_add_to(l)], list_index[l], l)

_add_penalty_to_pool(l, controller) ==
    LET p == pool_to_add_to(l)
        r == AddResult(l, controller)
    IN /\ pools' = [pools EXCEPT ![p] = r.pool]
       /\ last' = [op |-> "_add_penalty_to_pool", link |-> l, err |-> r.err,
                   old_index |-> list_index[l], old_len |-> Len(pools[p]),
                   had_entry |-> /\ list_index[l] >= 0
                                 /\ list_index[l] < Len(pools[p])
                                 /\ pools[p][list_index[l] + 1] = <<l>>]
       /\ UNCHANGED <<weight, nlp, nodes_phase, list_index, base, returned, fcnVars>>

\* ------------------------------------------------------------ preparation

\* the range check without its lower bound
PhaseOutOfRangeUpperOnly(phase) == phase >= NPhases

\* line 193
PhaseOutOfRange(phase) == phase < 0 \/ phase >= NPhases

\* lines 192-194: the inner loop raises on the Link's first bad phase
LinkRaises(l) == \E i \in 1..Len(nodes_phase[l]) : PhaseOutOfRange(nodes_phase[l][i])

\* lines 196-197
MarkBase(b, l) == IF weight[l] # 0 THEN [b EXCEPT ![l] = "MayerFunction"] ELSE b

\* lines 190-201: the loop over the list from its i-th Link on, with the bases
\* marked and the Links appended so far
RECURSIVE PrepareFrom(_, _, _)
PrepareFrom(i, b, full) ==
    IF i > NLinks THEN [err |-> "none", base |-> b, out |-> full]
    ELSE IF LinkRaises(i) THEN [err |-> "RuntimeError", base |-> b, out |-> << >>]
    ELSE PrepareFrom(i + 1, MarkBase(b, i), Append(full, i))

prepare_multinode_constraints ==
    LET r == PrepareFrom(1, base, << >>)
    IN /\ base' = r.base
       /\ returned' = [err |-> r.err, out |-> r.out]
       /\ last' = [op |-> "prepare_multinode_constraints", link |-> 0, err |-> r.err,
                   old_index |-> -1, old_len |-> 0, had_entry |-> FALSE]
       /\ UNCHANGED <<weight, nlp, nodes_phase, list_index, pools, fcnVars>>

\* ---------------------------------------------------------- specifications

Weights == {0, 1}
ValidPhases == <<0, NPhases - 1>>

NoCall == [op |-> "none", link |-> 0, err |-> "none", old_index |-> -1, old_len |-> 0,
           had_entry |-> FALSE]

NoFcnCall ==
    /\ controllers = << >>
    /\ call = [fn |-> "none"]
    /\ result = [fn |-> "none", err |-> "none"]

InitCommon ==
    /\ NoFcnCall
    /\ weight \in [Links -> Weights]
    /\ base = [l \in Links |-> "default"]
    /\ pools = [p \in PoolNames |-> << >>]
    /\ returned = [err |-> "none", out |-> << >>]
    /\ last = NoCall

\* Links as the list hands them over: no slot yet
Init ==
    /\ InitCommon
    /\ nlp \in [Links -> BOOLEAN]
    /\ nodes_phase = [l \in Links |-> ValidPhases]
    /\ list_index = [l \in Links |-> -1]

Next ==
    \/ \E l \in Links : ensure_penalty_sanity(l)
    \/ \E l \in Links : \E c \in {"scalar", "empty", "list"} : _add_penalty_to_pool(l, c)
    \/ prepare_multinode_constraints

Spec == Init /\ [][Next]_vars

\* Links built with a list_index of the caller's choosing (the list_index option
\* of the constructor's **params)
InitListIndex ==
    /\ InitCommon
    /\ nlp = [l \in Links |-> TRUE]
    /\ nodes_phase = [l \in Links |-> ValidPhases]
    /\ list_index \in [Links -> -1..MaxListIndex]

SpecListIndex == InitListIndex /\ [][Next]_vars

\* Links whose nodes_phase the constructor accepted: any integers
PhaseChoices == {<<0, NPhases - 1>>, <<0, NPhases>>, <<-1, 0>>}

InitPrepare ==
    /\ InitCommon
    /\ nlp = [l \in Links |-> FALSE]
    /\ nodes_phase \in [Links -> PhaseChoices]
    /\ list_index = [l \in Links |-> -1]

SpecPrepare == InitPrepare /\ [][Next]_vars

\* ------------------------------------------------------------ constructor

SeqsUpTo(S, n) == UNION {[1..k -> S] : k \in 0..n}

\* Python values a caller may put in nodes and nodes_phase: members of the Node
\* enumeration, integers, and floats (val is the integer, or the float's floor)
PyNode(name) == [py |-> "Node", name |-> name, val |-> 0]
PyInt(v) == [py |-> "int", name |-> "", val |-> v]
PyFloat(v) == [py |-> "float", name |-> "", val |-> v]

\* line 77
AcceptedMarkers == {PyNode("START"), PyNode("MID"), PyNode("PENULTIMATE"), PyNode("END")}

\* lines 78 and 84: isinstance(x, int)
IsInstanceInt(x) == x.py = "int"

\* lines 76-88: the three checks, in the order of the code
InitRaises(nodes, phases) ==
    \/ \E i \in 1..Len(nodes) : nodes[i] \notin AcceptedMarkers /\ ~IsInstanceInt(nodes[i])
    \/ \E i \in 1..Len(phases) : ~IsInstanceInt(phases[i])
    \/ Len(nodes) # Len(phases)

\* lines 44-102: MultinodeConstraint.__init__ on the arguments in call
__init__ ==
    /\ call.fn = "__init__" /\ result.fn = "none"
    /\ result' = IF InitRaises(call.nodes, call.nodes_phase)
                 THEN [fn |-> "__init__", err |-> "ValueError"]
                 ELSE [fn |-> "__init__", err |-> "none",
                       nodes |-> call.nodes, nodes_phase |-> call.nodes_phase]
    /\ UNCHANGED <<poolVars, controllers, call>>

\* --------------------------------------------------- multinode functions

\* _prepare_controller_cx counting every earlier controller, whatever its phase
PrepareControllerCxAnyPhase(cs) ==
    [i \in 1..Len(cs) |-> [cs[i] EXCEPT !.cx_index_to_get = i - 1]]

\* lines 457-460: cx_index_to_get counts the earlier controllers of the same phase
PrepareControllerCx(cs) ==
    [i \in 1..Len(cs) |->
        [cs[i] EXCEPT !.cx_index_to_get =
            Cardinality({j \in 1..(i - 1) : cs[j].phase_idx = cs[i].phase_idx})]]

\* lines 450-460, called on its own
_prepare_controller_cx ==
    /\ call.fn = "_prepare_controller_cx" /\ result.fn = "none"
    /\ controllers' = PrepareControllerCx(controllers)
    /\ result' = [fn |-> "_prepare_controller_cx", err |-> "none"]
    /\ UNCHANGED <<poolVars, call>>

\* the name "time_phase_" + str(k), and the name of any other parameter
TimePhaseName(k) == [kind |-> "time_phase", idx |-> k]
OtherName == [kind |-> "other", idx |-> 0]

\* lines 401-406 / 415-419: the loop over the names; the index it keeps is the
\* controller's phase_idx, found says whether it stayed None
TimeIdx(ctrl) ==
    [found |-> \E i \in 1..Len(ctrl.parameters) :
                   ctrl.parameters[i].name = TimePhaseName(ctrl.phase_idx),
     idx |-> ctrl.phase_idx]

\* lines 399-428; parameters.cx[k] outside the vector is casadi's out-of-bounds error
TimeEqualityResult(pre, post) ==
    LET ipre == TimeIdx(pre)
        ipost == TimeIdx(post)
    IN IF ~ipre.found THEN [fn |-> "time_equality", err |-> "MissingTimeParameter"]
       ELSE IF ~ipost.found THEN [fn |-> "time_equality", err |-> "MissingTimeParameter"]
       ELSE IF ipre.idx >= Len(pre.parameters) \/ ipost.idx >= Len(post.parameters)
       THEN [fn |-> "time_equality", err |-> "IndexOutOfBounds"]
       ELSE [fn |-> "time_equality", err |-> "none",
             time_pre |-> pre.parameters[ipre.idx + 1],
             time_post |-> post.parameters[ipost.idx + 1],
             value |-> pre.parameters[ipre.idx + 1].value - post.parameters[ipost.idx + 1].value]

\* lines 383-428
time_equality ==
    /\ call.fn = "time_equality" /\ result.fn = "none"
    /\ controllers' = PrepareControllerCx(controllers)
    /\ result' = TimeEqualityResult(controllers[1], controllers[2])
    /\ UNCHANGED <<poolVars, call>>

\* The two projections of constraint.states_mapping (bioptim/misc/mapping.py):
\* the identity, a permutation (the vector reversed) and a projection onto the
\* first component
Mappings == {"identity", "reversed", "first"}

Map(m, v) ==
    IF m = "identity" THEN v
    ELSE IF m = "reversed" THEN [i \in 1..Len(v) |-> v[Len(v) + 1 - i]]
    ELSE <<v[1]>>

\* line 235: ctrl_0.cx.zeros(shape)
Zeros(n) == [i \in 1..n |-> 0]

\* states_equality without the accumulation: out = states_0 - states_i
RECURSIVE StatesEqualityLastOnly(_, _, _, _, _)
StatesEqualityLastOnly(cs, to_first, i, states_0, out) ==
    IF i > Len(cs) THEN [fn |-> "states_equality", err |-> "none", value |-> out]
    ELSE LET states_i == Map(to_first, cs[i].states)
         IN IF Len(states_0) # Len(states_i)
            THEN [fn |-> "states_equality", err |-> "ShapeMismatch"]
            ELSE StatesEqualityLastOnly(cs, to_first, i + 1, states_0,
                     [k \in 1..Len(out) |-> states_0[k] - states_i[k]])

\* lines 236-249: the loop from controller i on (i counts from 1 for controllers[0])
RECURSIVE StatesEqualityFrom(_, _, _, _, _)
StatesEqualityFrom(cs, to_first, i, states_0, out) ==
    IF i > Len(cs) THEN [fn |-> "states_equality", err |-> "none", value |-> out]
    ELSE LET states_i == Map(to_first, cs[i].states)
         IN IF Len(states_0) # Len(states_i)
            THEN [fn |-> "states_equality", err |-> "ShapeMismatch"]
            ELSE StatesEqualityFrom(cs, to_first, i + 1, states_0,
                     [k \in 1..Len(out) |-> out[k] + (states_0[k] - states_i[k])])

\* lines 231-249
StatesEqualityResult(cs, mapping) ==
    LET states_0 == Map(mapping.to_second, cs[1].states)
    IN StatesEqualityFrom(cs, mapping.to_first, 2, states_0, Zeros(Len(states_0)))

\* lines 214-249
states_equality ==
    /\ call.fn = "states_equality" /\ result.fn = "none"
    /\ controllers' = PrepareControllerCx(controllers)
    /\ result' = StatesEqualityResult(controllers, call.states_mapping)
    /\ UNCHANGED <<poolVars, call>>

\* no Link, no pool: the state the functions above run in
NoPools ==
    /\ weight = [l \in Links |-> 0]
    /\ nlp = [l \in Links |-> FALSE]
    /\ nodes_phase = [l \in Links |-> ValidPhases]
    /\ list_index = [l \in Links |-> -1]
    /\ base = [l \in Links |-> "default"]
    /\ pools = [p \in PoolNames |-> << >>]
    /\ returned = [err |-> "none", out |-> << >>]
    /\ last = NoCall

NoResult == [fn |-> "none", err |-> "none"]

\* the constructor on every pair of tuples
NodeValues == AcceptedMarkers \cup {PyNode("ALL"), PyInt(-1), PyInt(0), PyInt(1), PyFloat(0)}
PhaseValues == {PyInt(0), PyInt(1), PyFloat(1)}

InitCtor ==
    /\ NoPools
    /\ controllers = << >>
    /\ \E ns \in SeqsUpTo(NodeValues, MaxNodes) : \E ps \in SeqsUpTo(PhaseValues, MaxNodes) :
           call = [fn |-> "__init__", nodes |-> ns, nodes_phase |-> ps]
    /\ result = NoResult

SpecCtor == InitCtor /\ [][__init__]_vars

\* _prepare_controller_cx on every list of controllers, whatever an earlier call left
CxControllers == [phase_idx : 0..(NPhases - 1), cx_index_to_get : 0..MaxCx,
                  parameters : {<< >>}, states : {<< >>}]

InitCx ==
    /\ NoPools
    /\ controllers \in SeqsUpTo(CxControllers, MaxControllers)
    /\ call = [fn |-> "_prepare_controller_cx", controllers |-> controllers]
    /\ result = NoResult

SpecCx == InitCx /\ [][_prepare_controller_cx]_vars

\* time_equality on two controllers, each with a vector of distinctly named parameters
ParamNames == {TimePhaseName(k) : k \in 0..(NPhases - 1)} \cup {OtherName}
ParamEntries == [name : ParamNames, value : {1, 2}]
ParamVectors ==
    {v \in SeqsUpTo(ParamEntries, MaxParams) :
        \A i, j \in 1..Len(v) : v[i].name = v[j].name => i = j}
TimeControllers == [phase_idx : 0..(NPhases - 1), cx_index_to_get : {0},
                    parameters : ParamVectors, states : {<< >>}]

InitTime ==
    /\ NoPools
    /\ controllers \in [1..2 -> TimeControllers]
    /\ call = [fn |-> "time_equality"]
    /\ result = NoResult

SpecTime == InitTime /\ [][time_equality]_vars

\* states_equality on two or more controllers with state vectors of any length
StateVectors == SeqsUpTo({0, 1}, MaxStates) \ {<< >>}
StatesControllers == [phase_idx : {0}, cx_index_to_get : {0},
                      parameters : {<< >>}, states : StateVectors]

InitStates ==
    /\ NoPools
    /\ controllers \in SeqsUpTo(StatesControllers, MaxControllers)
    /\ Len(controllers) >= 2
    /\ \E m \in [to_first : Mappings, to_second : Mappings] :
           call = [fn |-> "states_equality", states_mapping |-> m]
    /\ result = NoResult

SpecStates == InitStates /\ [][states_equality]_vars

\* ------------------------------------------------------------------ claims

Ensured(l) == last'.op = "ensure_penalty_sanity" /\ last'.link = l
Added(l) == last'.op = "_add_penalty_to_pool" /\ last'.link = l
PoolOf(l) ==
    IF nlp[l]
    THEN (IF weight[l] = 0 THEN "nlp.g_internal" ELSE "nlp.J_internal")
    ELSE (IF weight[l] = 0 THEN "ocp.g_internal" ELSE "ocp.J_internal")
SlotOf(l) == list_index[l] + 1
Max(a, b) == IF a >= b THEN a ELSE b

C2_Reallocation ==
    [][\A l \in Links : (Ensured(l) /\ list_index[l] >= 0) =>
        LET old == pools[PoolOf(l)]
            new == pools'[PoolOf(l)]
            s == list_index[l]
        IN /\ list_index'[l] = s
           /\ Len(new) = Max(Len(old), s + 1)
           /\ \A i \in (Len(old) + 1)..Len(new) : new[i] = << >>
           /\ new[s + 1] = << >>]_vars

\* a Link whose slot lay beyond the end of a pool that holds an installed Link
\* has just been re-allocated: the pool has grown up to its slot
C2_Witness ==
    /\ last.op = "ensure_penalty_sanity" /\ last.old_index >= 1
    /\ last.old_len >= 1 /\ last.old_len <= last.old_index
    /\ Len(pools[PoolOf(last.link)]) = last.old_index + 1
    /\ pools[PoolOf(last.link)][1] # << >>

\* C3: allocating or re-allocating a slot for one Link leaves every entry built
\* for another Link at its index with its content (stated for the entries
\* that sit at the slot of the Link they were built for).
C3_SiblingsKept ==
    [][\A l \in Links : Ensured(l) =>
        \A m \in Links \ {l} :
            LET p == PoolOf(m)
                i == SlotOf(m)
            IN (i >= 1 /\ i <= Len(pools[p]) /\ pools[p][i] = <<m>>) =>
                   (i <= Len(pools'[p]) /\ pools'[p][i] = <<m>> /\ list_index'[m] = list_index[m])]_vars

\* C4: once every Link has a slot inside its pool, no call changes the length of
\* a pool or the list_index of a Link: repeated passes do not grow the pools.
AllAllocated == \A l \in Links : list_index[l] >= 0 /\ list_index[l] < Len(pools[PoolOf(l)])

C4_Idempotent ==
    [][AllAllocated =>
        /\ list_index' = list_index
        /\ \A p \in PoolNames : Len(pools'[p]) = Len(pools[p])]_vars

\* an installed Link has just been prepared again, in a pool it shares with
\* another installed Link
C4_Witness ==
    /\ last.op = "ensure_penalty_sanity" /\ last.had_entry
    /\ AllAllocated
    /\ Len(pools[PoolOf(last.link)]) = last.old_len
    /\ \E m \in Links : /\ m # last.link /\ PoolOf(m) = PoolOf(last.link)
                         /\ pools[PoolOf(m)][SlotOf(m)] = <<m>>

\* C5: a Link sits in a constraint pool only with weight = 0 and in an objective
\* pool only with weight # 0, a slot is allocated in the pool the Link is
\* installed in, and a Link is on the Mayer path only with weight # 0 (every
\* Link with weight # 0 once prepare_multinode_constraints has returned the list).
InPools(l, ps) == \E p \in ps : \E i \in 1..Len(pools[p]) : pools[p][i] = <<l>>

C5_ModeByWeight ==
    /\ \A l \in Links :
        /\ InPools(l, GPools) => (weight[l] = 0 /\ base[l] # "MayerFunction")
        /\ InPools(l, JPools) => weight[l] # 0
        /\ base[l] = "MayerFunction" => weight[l] # 0
        /\ (last.op = "prepare_multinode_constraints" /\ last.err = "none" /\ weight[l] # 0)
              => base[l] = "MayerFunction"
    /\ \A p \in PoolNames :
        /\ \A i \in 1..Len(pools[p]) : \A l \in Links : pools[p][i] = <<l>> => p = PoolOf(l)
        /\ Len(pools[p]) > 0 => \E l \in Links : p = PoolOf(l)

\* a weighted Link is installed in an objective pool and marked for the Mayer
\* path while an unweighted one is installed in a constraint pool
C5_Witness ==
    \E l, m \in Links :
        /\ weight[l] # 0 /\ InPools(l, JPools) /\ base[l] = "MayerFunction"
        /\ weight[m] = 0 /\ InPools(m, GPools) /\ base[m] = "default"
        /\ last.op = "prepare_multinode_constraints"

\* C6: prepare_multinode_constraints raises exactly when some Link names a phase
\* outside 0..n_phases - 1; otherwise it returns every Link once, in insertion
\* order; either way every pool is left as it was.
C6_Prepare ==
    [][last'.op = "prepare_multinode_constraints" =>
        /\ returned'.err = "RuntimeError" <=>
              \E l \in Links : \E i \in 1..Len(nodes_phase[l]) :
                  nodes_phase[l][i] < 0 \/ nodes_phase[l][i] > NPhases - 1
        /\ returned'.err = "none" => returned'.out = [i \in 1..NLinks |-> i]
        /\ returned'.err \in {"none", "RuntimeError"}
        /\ pools' = pools /\ list_index' = list_index]_vars

\* the list has been returned whole while a pool holds an installed Link
C6_Witness ==
    /\ last.op = "prepare_multinode_constraints"
    /\ returned.err = "none" /\ Len(returned.out) = NLinks
    /\ \E l \in Links : InPools(l, PoolNames)

\* a Link with a negative phase made the preparation fail while a pool holds an
\* installed Link
C6_WitnessRaise ==
    /\ last.op = "prepare_multinode_constraints"
    /\ returned.err = "RuntimeError"
    /\ \E l \in Links : nodes_phase[l][1] < 0
    /\ \E l \in Links : InPools(l, PoolNames)

\* C7: a Link the constructor accepts has as many nodes as phases, integer
\* phases, and nodes that are one of START, MID, PENULTIMATE, END or a
\* non-negative integer; arguments that break one of these raise ValueError.
ValidNode(x) == x \in AcceptedMarkers \/ (x.py = "int" /\ x.val >= 0)

LinkInvariants(nodes, phases) ==
    /\ Len(nodes) = Len(phases)
    /\ \A i \in 1..Len(phases) : phases[i].py = "int"
    /\ \A i \in 1..Len(nodes) : ValidNode(nodes[i])

C7_CtorInvariants ==
    result.fn = "__init__" =>
        /\ result.err = "none" => LinkInvariants(result.nodes, result.nodes_phase)
        /\ ~LinkInvariants(call.nodes, call.nodes_phase) => result.err = "ValueError"

\* C8: time_equality raises the missing-time-parameter error when a controller
\* has no parameter named time_phase_<its phase_idx>; otherwise it returns the
\* entry of that name of pre minus the entry of that name of post, wherever
\* they stand, which is zero when the two are equal.
HasTime(ctrl) ==
    \E i \in 1..Len(ctrl.parameters) : ctrl.parameters[i].name.kind = "time_phase"
                                       /\ ctrl.parameters[i].name.idx = ctrl.phase_idx

Located(ctrl) ==
    ctrl.parameters[CHOOSE i \in 1..Len(ctrl.parameters) :
                        /\ ctrl.parameters[i].name.kind = "time_phase"
                        /\ ctrl.parameters[i].name.idx = ctrl.phase_idx]

C8_TimeEquality ==
    result.fn = "time_equality" =>
        LET pre == controllers[1]
            post == controllers[2]
        IN IF ~HasTime(pre) \/ ~HasTime(post)
           THEN result.err = "MissingTimeParameter"
           ELSE /\ result.err = "none"
                /\ result.time_pre = Located(pre)
                /\ result.time_post = Located(post)
                /\ result.value = Located(pre).value - Located(post).value
                /\ Located(pre).value = Located(post).value => result.value = 0

\* C9: after _prepare_controller_cx the controller at position i has
\* cx_index_to_get = the number of controllers before it with its phase_idx,
\* whatever the values an earlier call left.
C9_OccurrenceIndex ==
    result.fn = "_prepare_controller_cx" =>
        /\ Len(controllers) = Len(call.controllers)
        /\ \A i \in 1..Len(controllers) :
            /\ controllers[i].phase_idx = call.controllers[i].phase_idx
            /\ controllers[i].cx_index_to_get =
                   Cardinality({j \in 1..Len(controllers) :
                       j < i /\ call.controllers[j].phase_idx = call.controllers[i].phase_idx})

\* a phase listed twice with another phase in between got the indices 0 and 1,
\* the other phase 0, over different left-over values
C9_Witness ==
    /\ result.fn = "_prepare_controller_cx"
    /\ Len(controllers) = 3
    /\ controllers[1].phase_idx = controllers[3].phase_idx
    /\ controllers[2].phase_idx # controllers[1].phase_idx
    /\ controllers[1].cx_index_to_get = 0 /\ call.controllers[1].cx_index_to_get = 2
    /\ controllers[2].cx_index_to_get = 0 /\ call.controllers[2].cx_index_to_get = 1
    /\ controllers[3].cx_index_to_get = 1 /\ call.controllers[3].cx_index_to_get = 0

\* C10 (amended): states_equality raises the shape-mismatch error exactly when
\* the mapped states of some later controller differ in length from the mapped
\* states of the first; otherwise it returns the sum over i = 1..n-1 of
\* to_second(states_0) - to_first(states_i), which is the zero vector when all
\* controllers have the same state values and to_first and to_second are the
\* same projection.
RECURSIVE SumOfDifferences(_, _, _, _)
SumOfDifferences(s0, cs, m, k) ==
    IF cs = << >> THEN 0
    ELSE (s0[k] - Map(m, Head(cs).states)[k]) + SumOfDifferences(s0, Tail(cs), m, k)

Mismatch ==
    \E i \in 2..Len(controllers) :
        Len(Map(call.states_mapping.to_first, controllers[i].states))
            # Len(Map(call.states_mapping.to_second, controllers[1].states))

SameStates == \A i \in 2..Len(controllers) : controllers[i].states = controllers[1].states

StatesEqualityContract ==
    LET s0 == Map(call.states_mapping.to_second, controllers[1].states)
    IN IF Mismatch
       THEN result.err = "ShapeMismatch"
       ELSE /\ result.err = "none"
            /\ result.value = [k \in 1..Len(s0) |->
                   SumOfDifferences(s0, Tail(controllers), call.states_mapping.to_first, k)]

C10_StatesEquality ==
    result.fn = "states_equality" =>
        /\ StatesEqualityContract
        /\ (SameStates /\ call.states_mapping.to_first = call.states_mapping.to_second) =>
               (result.err = "none" /\ \A k \in 1..Len(result.value) : result.value[k] = 0)

\* three controllers with the same two unequal state values, both projections
\* the reversal: the residual is the zero vector of length two
C10_Witness ==
    /\ result.fn = "states_equality" /\ result.err = "none"
    /\ Len(controllers) = 3 /\ SameStates
    /\ controllers[1].states = <<0, 1>>
    /\ call.states_mapping = [to_first |-> "reversed", to_second |-> "reversed"]
    /\ result.value = <<0, 0>>

\* C10 as stated: the residual is the zero vector whenever all controllers have
\* the same state values
C10_ZeroWheneverSameStates ==
    result.fn = "states_equality" =>
        /\ StatesEqualityContract
        /\ (SameStates /\ result.err = "none") =>
               \A k \in 1..Len(result.value) : result.value[k] = 0

\* C11: _add_penalty_to_pool with a controller that is no list or tuple raises
\* the error of a wrong call and leaves every pool as it was; with a list it
\* touches only the pool of the Link, writes the Link at index list_index and
\* changes no other entry, and a Link still at list_index = -1 is not written
\* over an entry that is there already.
C11_AddPenalty ==
    [][\A l \in Links :
        /\ _add_penalty_to_pool(l, "scalar") =>
               (last'.err = "RuntimeError" /\ pools' = pools /\ list_index' = list_index)
        /\ _add_penalty_to_pool(l, "list") =>
               LET old == pools[PoolOf(l)]
                   new == pools'[PoolOf(l)]
               IN /\ \A q \in PoolNames \ {PoolOf(l)} : pools'[q] = pools[q]
                  /\ Len(new) = Len(old)
                  /\ list_index' = list_index
                  /\ list_index[l] >= 0 =>
                         /\ last'.err = "none"
                         /\ new[SlotOf(l)] = <<l>>
                         /\ \A i \in 1..Len(old) : i # SlotOf(l) => new[i] = old[i]
                  /\ list_index[l] < 0 =>
                         \A i \in 1..Len(old) : old[i] # << >> => new[i] = old[i]]_vars

\* C12: from Links that all start at list_index = -1, whatever the order of
\* the ensure_penalty_sanity and _add_penalty_to_pool calls, two Links of one
\* pool never hold the same list_index.
C12_DistinctSlots ==
    \A l, m \in Links :
        (l # m /\ PoolOf(l) = PoolOf(m) /\ list_index[l] >= 0 /\ list_index[m] >= 0)
            => list_index[l] # list_index[m]

===============================================================================
